---------------------------- MODULE Spec2Model ----------------------------
(***************************************************************************)
(* State-machine model of the SSE gateway in src/app/main.py:              *)
(*   /sse/publish, /sse/stream + subscribe()  (broker subscription stream) *)
(*   /events + event_generator(), /apps       (shared polling queue)       *)
(* Every HTTP connection is one session.  A session's generator runs as    *)
(* one asyncio task: it changes state only between suspension points       *)
(* (await / yield), so each action below is the code between two           *)
(* suspension points.                                                      *)
(***************************************************************************)
EXTENDS Integers, Sequences, FiniteSets, TLC

\* ------------------------------------------------------------------ bounds
MaxPublish == 2
MaxAppend == 2

Sessions == {"c1", "c2"}
Channels == {"default", "other"}

\* ------------------------------------------------------- program constants
MESSAGE_STREAM_RETRY_TIMEOUT == 15000

\* ------------------------------------------------------------------- text
\* A text is a sequence of code points, a payload on the wire a sequence of
\* bytes.  "Hello world!" is the message of /sse/publish.
HelloWorld == <<72, 101, 108, 108, 111, 32, 119, 111, 114, 108, 100, 33>>

\* str -> bytes, as the client library encodes the message of redis.publish
Utf8EncodeChar(c) ==
    IF c < 128 THEN <<c>>
    ELSE <<192 + (c \div 64), 128 + (c % 64)>>

RECURSIVE Utf8Encode(_)
Utf8Encode(t) ==
    IF t = <<>> THEN <<>>
    ELSE Utf8EncodeChar(Head(t)) \o Utf8Encode(Tail(t))

\* bytes -> str, as channel_subscription.get(encoding='utf-8') decodes;
\* ok = FALSE is UnicodeDecodeError.  One- and two-byte sequences.
RECURSIVE Utf8Decode(_)
Utf8Decode(b) ==
    IF b = <<>> THEN [ok |-> TRUE, text |-> <<>>]
    ELSE IF b[1] < 128
         THEN LET r == Utf8Decode(Tail(b))
              IN  [ok |-> r.ok, text |-> <<b[1]>> \o r.text]
    ELSE IF /\ b[1] >= 194 /\ b[1] <= 223
            /\ Len(b) >= 2 /\ b[2] >= 128 /\ b[2] <= 191
         THEN LET r == Utf8Decode(Tail(Tail(b)))
              IN  [ok |-> r.ok,
                   text |-> <<(b[1] - 192) * 64 + (b[2] - 128)>> \o r.text]
    ELSE [ok |-> FALSE, text |-> <<>>]

\* Payloads other clients of the broker publish.  Payloads are text (the
\* gateway's own publisher sends text only): "e-acute", two bytes on the wire.
ExternalPayloads == { <<195, 169>> }

\* ------------------------------------------------------------ Accept header
\* A header value is a sequence of characters; the model keeps the characters
\* of a media type together in tokens.  NoHeader is Header(None)'s default.
NoHeader == <<"None">>
SseMediaType == <<"text", "/", "event-stream">>
AcceptHeaders ==
    { NoHeader,
      <<"*", "/", "*">>,
      <<"text", "/", "html", ",", "text", "/", "event-stream">> }

\* needle in hay (Python's substring test)
Contains(hay, needle) ==
    \E i \in 0..(Len(hay) - Len(needle)) :
        \A j \in 1..Len(needle) : hay[i + j] = needle[j]

\* --------------------------------------------------------------- the queue
\* messages (main.py:98-104).  uid is a ghost field naming the occurrence of
\* an item: the code's items are (event_name, payload) pairs.
InitialMessages ==
    << [event |-> "message",     data |-> "foo",       uid |-> 1],
       [event |-> "message",     data |-> "bar",       uid |-> 2],
       [event |-> "message",     data |-> "foobar",    uid |-> 3],
       [event |-> "new_message", data |-> "honk",      uid |-> 4],
       [event |-> "new_message", data |-> "honk hase", uid |-> 5] >>

VARIABLES
    endpoint,    \* session -> "none" | "/sse/stream" | "/events"
    accept,      \* session -> the Accept header of its request
    response,    \* session -> "none" | "info" | "error500" | "sse"
    chan,        \* session -> channel of its /sse/stream request
    pc,          \* session -> position of its handler / generator
    connected,   \* session -> the peer is still there
    emitted,     \* session -> envelopes its generator has yielded
    consumed,    \* session -> envelopes the HTTP layer has taken and sent
    attached,    \* session -> its Subscription is attached at the broker
    closed,      \* session -> "no" | "normal" | "error": broker side of it
    buffer,      \* session -> payloads delivered to it and not yet read
    delivered,   \* session -> every payload delivered to it (history)
    attachAt,    \* session -> Len(published) when it subscribed (history)
    brokerUp,    \* the broker connection works
    published,   \* every (channel, payload) published (history)
    subscribeCalls, \* number of redis.subscribe calls (spy)
    messages,    \* the shared polling queue
    COUNT,       \* the global id counter
    nextUid      \* ghost: uid of the next appended item

vars == << endpoint, accept, response, chan, pc, connected, emitted, consumed,
           attached, closed, buffer, delivered, attachAt, brokerUp, published,
           subscribeCalls, messages, COUNT, nextUid >>

sessionVars == << endpoint, accept, response, chan, pc, connected, emitted, consumed >>
brokerVars == << attached, closed, buffer, delivered, attachAt, brokerUp,
                 published, subscribeCalls >>
queueVars == << messages, COUNT, nextUid >>

ClosedStates == {"CLOSED_NORMAL", "CLOSED_ERROR", "CLOSED_CANCELLED"}
StreamActive == {"OPEN", "STREAMING", "YIELD"}
PollActive == {"TICK", "PYIELD", "SLEEP"}

Init ==
    /\ endpoint = [s \in Sessions |-> "none"]
    /\ accept = [s \in Sessions |-> NoHeader]
    /\ response = [s \in Sessions |-> "none"]
    /\ chan = [s \in Sessions |-> "default"]
    /\ pc = [s \in Sessions |-> "idle"]
    /\ connected = [s \in Sessions |-> TRUE]
    /\ emitted = [s \in Sessions |-> <<>>]
    /\ consumed = [s \in Sessions |-> 0]
    /\ attached = [s \in Sessions |-> FALSE]
    /\ closed = [s \in Sessions |-> "no"]
    /\ buffer = [s \in Sessions |-> <<>>]
    /\ delivered = [s \in Sessions |-> <<>>]
    /\ attachAt = [s \in Sessions |-> 0]
    /\ brokerUp = TRUE
    /\ published = <<>>
    /\ subscribeCalls = 0
    /\ messages = InitialMessages
    /\ COUNT = 0
    /\ nextUid = Len(InitialMessages) + 1


\* ------------------------------------------------- HTTP negotiation layer
\* "text/event-stream" not in accept  (main.py:69, main.py:109).  With no
\* Accept header accept is None and the test raises TypeError: the framework
\* answers 500 and the handler returns nothing.
Negotiate(acc) ==
    IF acc = NoHeader THEN "error500"
    ELSE IF ~Contains(acc, SseMediaType) THEN "info"
    ELSE "sse"

\* GET /sse/stream  (main.py:65-73).  EventSourceResponse(subscribe(...))
\* creates the generator; its body has not run yet.
RequestStream(s, ch, acc) ==
    /\ pc[s] = "idle"
    /\ endpoint' = [endpoint EXCEPT ![s] = "/sse/stream"]
    /\ accept' = [accept EXCEPT ![s] = acc]
    /\ response' = [response EXCEPT ![s] = Negotiate(acc)]
    /\ chan' = [chan EXCEPT ![s] = IF Negotiate(acc) = "sse" THEN ch ELSE @]
    /\ pc' = [pc EXCEPT ![s] = IF Negotiate(acc) = "sse" THEN "OPEN" ELSE "done"]
    /\ UNCHANGED << connected, emitted, consumed, brokerVars, queueVars >>

\* ------------------------------------------------- subscription adapter
\* The channel subscribe() attaches to: Channel(channel, False), main.py:77
\* Faulty variant: ignores the channel parameter.
SubscribedDefault(s) == "default"
SubscribedChannel(s) == chan[s]

\* The channel's payloads so far, as a subscription that replays would get them
Backlog(ch) ==
    LET onCh == SelectSeq(published, LAMBDA m : m.channel = ch)
    IN  [i \in 1..Len(onCh) |-> onCh[i].payload]

\* Faulty variant: a subscription that starts with the channel's history.
SubscribeWithReplay(s) ==
    /\ pc[s] = "OPEN"
    /\ connected[s]
    /\ brokerUp
    /\ attached' = [attached EXCEPT ![s] = TRUE]
    /\ attachAt' = [attachAt EXCEPT ![s] = Len(published)]
    /\ buffer' = [buffer EXCEPT ![s] = Backlog(chan[s])]
    /\ delivered' = [delivered EXCEPT ![s] = Backlog(chan[s])]
    /\ subscribeCalls' = subscribeCalls + 1
    /\ pc' = [pc EXCEPT ![s] = "STREAMING"]
    /\ UNCHANGED << endpoint, accept, response, chan, connected, emitted, consumed,
                    closed, brokerUp, published, queueVars >>

\* (channel_subscription,) = await redis.subscribe(...)   (main.py:77)
\* An unreachable broker raises out of the generator.
Subscribe(s) ==
    /\ pc[s] = "OPEN"
    /\ connected[s]
    /\ IF brokerUp
       THEN /\ attached' = [attached EXCEPT ![s] = TRUE]
            /\ attachAt' = [attachAt EXCEPT ![s] = Len(published)]
            /\ subscribeCalls' = subscribeCalls + 1
            /\ pc' = [pc EXCEPT ![s] = "STREAMING"]
       ELSE /\ pc' = [pc EXCEPT ![s] = "CLOSED_ERROR"]
            /\ UNCHANGED << attached, attachAt, subscribeCalls >>
    /\ UNCHANGED << endpoint, accept, response, chan, connected, emitted, consumed,
                    closed, buffer, delivered, brokerUp, published, queueVars >>

\* The payload get() takes from the subscription, and what it leaves.
\* Faulty variant: reads the newest payload first.
NextPayloadNewest(buf) == buf[Len(buf)]
NextPayload(buf) == Head(buf)
\* Faulty variant: takes everything that is buffered along with the payload.
RestPayloadsDrain(buf) == <<>>
RestPayloads(buf) == Tail(buf)

\* {"event": "message", "data": data}   (main.py:85)
StreamEnvelope(data) == [event |-> "message", data |-> data]

\* wait_message() returns True, data = await channel_subscription.get(
\* encoding='utf-8'), yield {"event": "message", "data": data}  (main.py:80-85).
\* With a payload buffered neither await suspends, so the generator runs from
\* its wake-up in wait_message() to the yield in one step.  A payload that is
\* not UTF-8 raises UnicodeDecodeError out of the generator.
NextMessage(s) ==
    /\ pc[s] = "STREAMING"
    /\ connected[s]
    /\ buffer[s] # <<>>
    /\ buffer' = [buffer EXCEPT ![s] = RestPayloads(@)]
    /\ LET d == Utf8Decode(NextPayload(buffer[s]))
       IN  IF d.ok
           THEN /\ emitted' = [emitted EXCEPT ![s] = Append(@, StreamEnvelope(d.text))]
                /\ pc' = [pc EXCEPT ![s] = "YIELD"]
           ELSE /\ pc' = [pc EXCEPT ![s] = "CLOSED_ERROR"]
                /\ UNCHANGED emitted
    /\ UNCHANGED << endpoint, accept, response, chan, connected, consumed,
                    attached, closed, delivered, attachAt, brokerUp, published,
                    subscribeCalls, queueVars >>

\* wait_message() with nothing buffered  (main.py:80): False once the
\* subscription is closed, which ends the loop and the generator; an error
\* once the connection is lost; suspended otherwise.
EndOfStream(s) ==
    /\ pc[s] = "STREAMING"
    /\ connected[s]
    /\ buffer[s] = <<>>
    /\ closed[s] # "no"
    /\ pc' = [pc EXCEPT ![s] = IF closed[s] = "normal" THEN "CLOSED_NORMAL"
                               ELSE "CLOSED_ERROR"]
    /\ UNCHANGED << endpoint, accept, response, chan, connected, emitted, consumed,
                    brokerVars, queueVars >>

\* Faulty variant: the generator returns after its first envelope.
ResumeAndReturn(s) ==
    /\ pc[s] = "YIELD"
    /\ connected[s]
    /\ consumed' = [consumed EXCEPT ![s] = @ + 1]
    /\ pc' = [pc EXCEPT ![s] = "CLOSED_NORMAL"]
    /\ UNCHANGED << endpoint, accept, response, chan, connected, emitted,
                    brokerVars, queueVars >>

\* The HTTP layer has sent the envelope and asks the generator for the next
\* one: the generator resumes after the yield and loops to wait_message().
Resume(s) ==
    /\ pc[s] = "YIELD"
    /\ connected[s]
    /\ consumed' = [consumed EXCEPT ![s] = @ + 1]
    /\ pc' = [pc EXCEPT ![s] = "STREAMING"]
    /\ UNCHANGED << endpoint, accept, response, chan, connected, emitted,
                    brokerVars, queueVars >>

\* ------------------------------------------------------------- the broker
\* What a publish does to the subscriptions attached to channel ch.
Deliver(ch, p) ==
    /\ buffer' = [s \in Sessions |->
                    IF attached[s] /\ SubscribedChannel(s) = ch
                    THEN Append(buffer[s], p) ELSE buffer[s]]
    /\ delivered' = [s \in Sessions |->
                    IF attached[s] /\ SubscribedChannel(s) = ch
                    THEN Append(delivered[s], p) ELSE delivered[s]]
    /\ published' = Append(published, [channel |-> ch, payload |-> p])

\* GET /sse/publish: await redis.publish(channel, "Hello world!")  (main.py:59-62)
Publish(ch) ==
    /\ brokerUp
    /\ Len(published) < MaxPublish
    /\ Deliver(ch, Utf8Encode(HelloWorld))
    /\ UNCHANGED << sessionVars, attached, closed, attachAt, brokerUp,
                    subscribeCalls, queueVars >>

\* Another client of the broker publishes.
ExternalPublish(ch, p) ==
    /\ brokerUp
    /\ Len(published) < MaxPublish
    /\ Deliver(ch, p)
    /\ UNCHANGED << sessionVars, attached, closed, attachAt, brokerUp,
                    subscribeCalls, queueVars >>

\* The broker closes one subscription.
BrokerClose(s) ==
    /\ attached[s]
    /\ attached' = [attached EXCEPT ![s] = FALSE]
    /\ closed' = [closed EXCEPT ![s] = "normal"]
    /\ UNCHANGED << sessionVars, buffer, delivered, attachAt, brokerUp, published,
                    subscribeCalls, queueVars >>

\* The broker connection fails: every subscription on it is gone.
BrokerFail ==
    /\ brokerUp
    /\ brokerUp' = FALSE
    /\ attached' = [s \in Sessions |-> FALSE]
    /\ closed' = [s \in Sessions |-> IF attached[s] THEN "error" ELSE closed[s]]
    /\ UNCHANGED << sessionVars, buffer, delivered, attachAt, published,
                    subscribeCalls, queueVars >>

\* ------------------------------------------------------ the stream session
\* The peer goes away.
Disconnect(s) ==
    /\ pc[s] \in StreamActive \cup PollActive
    /\ connected[s]
    /\ connected' = [connected EXCEPT ![s] = FALSE]
    /\ UNCHANGED << endpoint, accept, response, chan, pc, emitted, consumed,
                    brokerVars, queueVars >>

\* The session sees the disconnect and cancels the generator's task at its
\* suspension point.  subscribe() has no finally / unsubscribe: cancelling it
\* changes nothing at the broker.
Cancel(s) ==
    /\ pc[s] \in StreamActive \cup PollActive
    /\ ~connected[s]
    /\ pc' = [pc EXCEPT ![s] = "CLOSED_CANCELLED"]
    /\ UNCHANGED << endpoint, accept, response, chan, connected, emitted, consumed,
                    brokerVars, queueVars >>


\* ---------------------------------------------------------- polling adapter
\* GET /events  (main.py:107-110, 137)
RequestEvents(s, acc) ==
    /\ pc[s] = "idle"
    /\ endpoint' = [endpoint EXCEPT ![s] = "/events"]
    /\ accept' = [accept EXCEPT ![s] = acc]
    /\ response' = [response EXCEPT ![s] = Negotiate(acc)]
    /\ pc' = [pc EXCEPT ![s] = IF Negotiate(acc) = "sse" THEN "TICK" ELSE "done"]
    /\ UNCHANGED << chan, connected, emitted, consumed, brokerVars, queueVars >>

\* Faulty variant: true only when more than one item is queued.
more_than_one_message == Len(messages) - 1

\* new_messages(): len(messages), used as a truth value  (main.py:113-115, 124)
new_messages == Len(messages)

\* messages.pop(): the item it returns and the list it leaves  (main.py:126)
\* Faulty variants: reads the oldest item; reads without removing.
PoppedFirst(q) == q[1]
PoppedItem(q) == q[Len(q)]
AfterPopKeep(q) == q
AfterPop(q) == SubSeq(q, 1, Len(q) - 1)

\* increment()  (main.py:93-95)
increment(c) == c + 1

\* Faulty variants: event name and payload swapped; the id read before
\* increment().
PollEnvelopeSwapped(msg, count) ==
    [event |-> msg.data, id |-> count, retry |-> MESSAGE_STREAM_RETRY_TIMEOUT,
     data |-> msg.event, uid |-> msg.uid]

PollEnvelopeStaleId(msg, count) ==
    [event |-> msg.event, id |-> count - 1, retry |-> MESSAGE_STREAM_RETRY_TIMEOUT,
     data |-> msg.data, uid |-> msg.uid]

\* the dict of the yield  (main.py:128-133); uid is the ghost of the item
PollEnvelope(msg, count) ==
    [event |-> msg.event, id |-> count, retry |-> MESSAGE_STREAM_RETRY_TIMEOUT,
     data |-> msg.data, uid |-> msg.uid]

\* Faulty variant: an empty queue ends the loop.
TickStopOnEmpty(s) ==
    /\ pc[s] = "TICK"
    /\ IF ~connected[s]
       THEN /\ pc' = [pc EXCEPT ![s] = "CLOSED_CANCELLED"]
            /\ UNCHANGED << emitted, messages, COUNT >>
       ELSE IF new_messages # 0
       THEN /\ messages' = AfterPop(messages)
            /\ COUNT' = increment(COUNT)
            /\ emitted' = [emitted EXCEPT ![s] =
                              Append(@, PollEnvelope(PoppedItem(messages), COUNT'))]
            /\ pc' = [pc EXCEPT ![s] = "PYIELD"]
       ELSE /\ pc' = [pc EXCEPT ![s] = "CLOSED_NORMAL"]
            /\ UNCHANGED << emitted, messages, COUNT >>
    /\ UNCHANGED << endpoint, accept, response, chan, connected, consumed,
                    brokerVars, nextUid >>

\* Faulty variant: the disconnect is not checked on this iteration.
TickNoCheck(s) ==
    /\ pc[s] = "TICK"
    /\ IF new_messages # 0
       THEN /\ messages' = AfterPop(messages)
            /\ COUNT' = increment(COUNT)
            /\ emitted' = [emitted EXCEPT ![s] =
                              Append(@, PollEnvelope(PoppedItem(messages), COUNT'))]
            /\ pc' = [pc EXCEPT ![s] = "PYIELD"]
       ELSE /\ pc' = [pc EXCEPT ![s] = "SLEEP"]
            /\ UNCHANGED << emitted, messages, COUNT >>
    /\ UNCHANGED << endpoint, accept, response, chan, connected, consumed,
                    brokerVars, nextUid >>

\* Faulty variant: a suspension point between the test of new_messages() and
\* the pop; a pop on an empty list raises and ends the generator.
TickSplit(s) ==
    /\ pc[s] \in {"TICK", "POPPING"}
    /\ IF pc[s] = "TICK"
       THEN /\ pc' = [pc EXCEPT ![s] =
                        IF ~connected[s] THEN "CLOSED_CANCELLED"
                        ELSE IF new_messages # 0 THEN "POPPING" ELSE "SLEEP"]
            /\ UNCHANGED << emitted, messages, COUNT >>
       ELSE IF messages # <<>>
       THEN /\ messages' = AfterPop(messages)
            /\ COUNT' = increment(COUNT)
            /\ emitted' = [emitted EXCEPT ![s] =
                              Append(@, PollEnvelope(PoppedItem(messages), COUNT'))]
            /\ pc' = [pc EXCEPT ![s] = "PYIELD"]
       ELSE /\ pc' = [pc EXCEPT ![s] = "CLOSED_ERROR"]
            /\ UNCHANGED << emitted, messages, COUNT >>
    /\ UNCHANGED << endpoint, accept, response, chan, connected, consumed,
                    brokerVars, nextUid >>

\* One iteration of event_generator up to its next suspension point
\* (main.py:118-135): the answer of request.is_disconnected(), then with no
\* await in between the test of new_messages(), the pop, increment() and the
\* yield; with an empty queue it goes straight to the sleep.
Tick(s) ==
    /\ pc[s] = "TICK"
    /\ IF ~connected[s]
       THEN /\ pc' = [pc EXCEPT ![s] = "CLOSED_CANCELLED"]
            /\ UNCHANGED << emitted, messages, COUNT >>
       ELSE IF new_messages # 0
       THEN /\ messages' = AfterPop(messages)
            /\ COUNT' = increment(COUNT)
            /\ emitted' = [emitted EXCEPT ![s] =
                              Append(@, PollEnvelope(PoppedItem(messages), COUNT'))]
            /\ pc' = [pc EXCEPT ![s] = "PYIELD"]
       ELSE /\ pc' = [pc EXCEPT ![s] = "SLEEP"]
            /\ UNCHANGED << emitted, messages, COUNT >>
    /\ UNCHANGED << endpoint, accept, response, chan, connected, consumed,
                    brokerVars, nextUid >>

\* Faulty variant: the sleep is skipped after an envelope.
ResumePollNoSleep(s) ==
    /\ pc[s] = "PYIELD"
    /\ consumed' = [consumed EXCEPT ![s] = @ + 1]
    /\ pc' = [pc EXCEPT ![s] = "TICK"]
    /\ UNCHANGED << endpoint, accept, response, chan, connected, emitted,
                    brokerVars, queueVars >>

\* The HTTP layer has sent the envelope and asks for the next one: the
\* generator resumes after the yield and reaches asyncio.sleep (main.py:135).
ResumePoll(s) ==
    /\ pc[s] = "PYIELD"
    /\ consumed' = [consumed EXCEPT ![s] = @ + 1]
    /\ pc' = [pc EXCEPT ![s] = "SLEEP"]
    /\ UNCHANGED << endpoint, accept, response, chan, connected, emitted,
                    brokerVars, queueVars >>

\* asyncio.sleep(MESSAGE_STREAM_DELAY) is over: back to the top of the loop.
Wake(s) ==
    /\ pc[s] = "SLEEP"
    /\ pc' = [pc EXCEPT ![s] = "TICK"]
    /\ UNCHANGED << endpoint, accept, response, chan, connected, emitted, consumed,
                    brokerVars, queueVars >>

\* Faulty variant: rebinds the list instead of appending to it.
AppsOverwrite ==
    /\ nextUid <= Len(InitialMessages) + MaxAppend
    /\ messages' = << [event |-> "message", data |-> "yeah", uid |-> nextUid] >>
    /\ nextUid' = nextUid + 1
    /\ UNCHANGED << sessionVars, brokerVars, COUNT >>

\* GET /apps: messages.append(("message", "yeah"))  (main.py:204-208)
Apps ==
    /\ nextUid <= Len(InitialMessages) + MaxAppend
    /\ messages' = Append(messages, [event |-> "message", data |-> "yeah", uid |-> nextUid])
    /\ nextUid' = nextUid + 1
    /\ UNCHANGED << sessionVars, brokerVars, COUNT >>

\* ------------------------------------------------------------ specification
StreamRequests ==
    \E s \in Sessions, ch \in Channels, acc \in AcceptHeaders : RequestStream(s, ch, acc)

PollRequests ==
    \E s \in Sessions, acc \in AcceptHeaders : RequestEvents(s, acc)

SessionSteps ==
    \/ \E s \in Sessions : Disconnect(s)
    \/ \E s \in Sessions : Cancel(s)

StreamSteps ==
    \/ \E s \in Sessions : Subscribe(s)
    \/ \E s \in Sessions : NextMessage(s)
    \/ \E s \in Sessions : EndOfStream(s)
    \/ \E s \in Sessions : Resume(s)
    \/ \E ch \in Channels : Publish(ch)
    \/ \E ch \in Channels, p \in ExternalPayloads : ExternalPublish(ch, p)
    \/ \E s \in Sessions : BrokerClose(s)
    \/ BrokerFail

PollSteps ==
    \/ \E s \in Sessions : Tick(s)
    \/ \E s \in Sessions : ResumePoll(s)
    \/ \E s \in Sessions : Wake(s)
    \/ Apps

\* the broker side: /sse/stream sessions, /sse/publish and the broker
NextStream == StreamRequests \/ StreamSteps \/ SessionSteps

\* the polling side: /events sessions and /apps
NextPoll == PollRequests \/ PollSteps \/ SessionSteps

SpecStream == Init /\ [][NextStream]_vars

SpecPoll == Init /\ [][NextPoll]_vars

\* the polling side under the event loop's scheduling: a generator that can
\* run (its is_disconnected answer is in, its envelope was sent, its sleep
\* is over) is eventually run
FairSpecPoll ==
    /\ SpecPoll
    /\ \A s \in Sessions :
          WF_vars(Tick(s)) /\ WF_vars(ResumePoll(s)) /\ WF_vars(Wake(s))

\* one polling session and /apps while the broker connection may fail
OnePoller == CHOOSE s \in Sessions : TRUE

NextPollBrokerDown ==
    \/ \E acc \in AcceptHeaders : RequestEvents(OnePoller, acc)
    \/ Tick(OnePoller)
    \/ ResumePoll(OnePoller)
    \/ Wake(OnePoller)
    \/ Apps
    \/ Disconnect(OnePoller)
    \/ Cancel(OnePoller)
    \/ BrokerFail

SpecPollBrokerDown == Init /\ [][NextPollBrokerDown]_vars


\* ================================================================== claims
StreamSessions == { s \in Sessions : endpoint[s] = "/sse/stream" }
PollSessions == { s \in Sessions : endpoint[s] = "/events" }

\* The envelopes a sequence of payloads stands for
EnvelopesOf(payloads) ==
    [i \in 1..Len(payloads) |-> StreamEnvelope(Utf8Decode(payloads[i]).text)]

IsPrefix(a, b) == Len(a) <= Len(b) /\ a = SubSeq(b, 1, Len(a))

\* C1: every terminated subscription adapter has released its Subscription,
\* whichever way it ended (CLOSED_NORMAL, CLOSED_ERROR, CLOSED_CANCELLED).
C1_ReleasedOnEveryExit ==
    \A s \in StreamSessions : pc[s] \in ClosedStates => ~attached[s]

\* C2: at every point the envelopes a subscription adapter has emitted are,
\* one per payload and in order, the first payloads the broker delivered to
\* its subscription (event "message", data the decoded payload), and every
\* delivered payload not yet emitted is still waiting in the subscription.
C2_OrderPreserved ==
    \A s \in StreamSessions :
        /\ IsPrefix(emitted[s], EnvelopesOf(delivered[s]))
        /\ delivered[s] = SubSeq(delivered[s], 1, Len(emitted[s])) \o buffer[s]

\* C2 witness: a stream has emitted two envelopes with different data, the
\* broker's two deliveries in their order.
C2_Witness ==
    \E s \in StreamSessions :
        /\ Len(emitted[s]) = 2
        /\ emitted[s][1].data = HelloWorld
        /\ emitted[s][2].data # HelloWorld
        /\ delivered[s] = << Utf8Encode(HelloWorld), <<195, 169>> >>


\* The payloads published to session s's channel after s attached
AfterAttach(s) ==
    LET later == SubSeq(published, attachAt[s] + 1, Len(published))
        onCh == SelectSeq(later, LAMBDA m : m.channel = chan[s])
    IN  [i \in 1..Len(onCh) |-> onCh[i].payload]

\* The payloads published to session s's channel before s attached
BeforeAttach(s) ==
    LET earlier == SubSeq(published, 1, attachAt[s])
    IN  SelectSeq(earlier, LAMBDA m : m.channel = chan[s])

\* C8: a subscription's envelope stream holds only messages published to its
\* channel after it attached: it is a prefix of those, so none of the N
\* payloads published before the attachment is in it (no backlog, no replay).
C8_NoBacklog ==
    \A s \in StreamSessions : IsPrefix(emitted[s], EnvelopesOf(AfterAttach(s)))

\* C8 witness: a payload was published on the channel before the session
\* attached and another one after; the stream holds the later one only.
C8_Witness ==
    \E s \in StreamSessions :
        /\ Len(BeforeAttach(s)) = 1
        /\ pc[s] = "STREAMING" /\ buffer[s] = <<>>
        /\ Len(AfterAttach(s)) = 1
        /\ AfterAttach(s)[1] # BeforeAttach(s)[1].payload
        /\ emitted[s] = EnvelopesOf(AfterAttach(s))

\* C9: fan-out.  For every session whose subscription is attached, each
\* message published to its channel after it attached has been emitted on
\* that session or waits in that session's own subscription: a message
\* taken by one subscriber is not taken away from another.  So two sessions
\* on one channel both emit every message published after both attached.
C9_FanOut ==
    \A s \in StreamSessions :
        (attached[s] /\ connected[s] /\ pc[s] \in {"STREAMING", "YIELD"}) =>
            EnvelopesOf(AfterAttach(s)) = emitted[s] \o EnvelopesOf(buffer[s])

\* C9 witness: two sessions on the same channel have both emitted the same
\* published message.
C9_Witness ==
    /\ StreamSessions = Sessions
    /\ \A s \in Sessions : attached[s] /\ chan[s] = "other" /\ attachAt[s] = 0
    /\ Len(published) = 1
    /\ \A s \in Sessions : emitted[s] = << StreamEnvelope(HelloWorld) >>

\* C10: one publish of "Hello world!" to a subscriber of "default" whose
\* subscription is open and whose peer is connected: the stream holds exactly
\* the envelope {event: "message", data: "Hello world!"} once the payload is
\* read, nothing before, and the adapter has not terminated.
C10_HelloWorld ==
    \A s \in StreamSessions :
        ( /\ chan[s] = "default" /\ attached[s] /\ connected[s]
          /\ delivered[s] = << Utf8Encode(HelloWorld) >> ) =>
            /\ pc[s] \in {"STREAMING", "YIELD"}
            /\ emitted[s] = IF buffer[s] = <<>>
                            THEN << [event |-> "message", data |-> HelloWorld] >>
                            ELSE <<>>

\* C10 witness: the envelope was sent and the adapter awaits the next payload.
C10_Witness ==
    \E s \in StreamSessions :
        /\ chan[s] = "default" /\ attached[s] /\ connected[s]
        /\ published = << [channel |-> "default", payload |-> Utf8Encode(HelloWorld)] >>
        /\ emitted[s] = << [event |-> "message", data |-> HelloWorld] >>
        /\ consumed[s] = 1
        /\ pc[s] = "STREAMING"


\* C6: a subscription adapter whose peer disconnected while it awaited the
\* next payload takes one more step only: it is cancelled, its Subscription
\* is released by then, and it emits no envelope.
C6_DisconnectReleases ==
    [][ \A s \in Sessions :
          ( /\ endpoint[s] = "/sse/stream" /\ pc[s] = "STREAMING"
            /\ ~connected[s] /\ pc'[s] # pc[s] ) =>
              /\ pc'[s] = "CLOSED_CANCELLED"
              /\ ~attached'[s]
              /\ emitted'[s] = emitted[s] ]_vars

\* C7: a request to /sse/stream or /events whose Accept header does not
\* contain text/event-stream is answered with the informational document and
\* starts no adapter: no subscribe, no pop, the id counter unchanged.
C7_NonSseNeverStarts ==
    [][ \A s \in Sessions :
          ( /\ pc[s] = "idle" /\ pc'[s] # "idle"
            /\ ~Contains(accept'[s], SseMediaType) ) =>
              /\ response'[s] = "info"
              /\ pc'[s] = "done"
              /\ UNCHANGED << brokerVars, queueVars, emitted >> ]_vars

\* ------------------------------------------------------------ polling queue
\* The item occurrences in the queue, and those in session s's envelopes
QueueUids == { messages[i].uid : i \in 1..Len(messages) }
EmittedUids(s) == { emitted[s][i].uid : i \in 1..Len(emitted[s]) }

\* C3: an item occurrence is delivered to at most one polling session and at
\* most once, and once delivered it is no longer in the queue.
C3_AtMostOneSession ==
    \A s \in PollSessions :
        /\ \A i, j \in 1..Len(emitted[s]) :
               i # j => emitted[s][i].uid # emitted[s][j].uid
        /\ \A t \in PollSessions \ {s} : EmittedUids(s) \cap EmittedUids(t) = {}
        /\ EmittedUids(s) \cap QueueUids = {}

\* C3 witness: both sessions have taken items, an appended one among them,
\* while /apps kept appending.
C3_Witness ==
    /\ PollSessions = Sessions
    /\ \A s \in Sessions : Len(emitted[s]) >= 2
    /\ \E s \in Sessions : \E i \in 1..Len(emitted[s]) :
           emitted[s][i].uid > Len(InitialMessages)
    /\ nextUid = Len(InitialMessages) + MaxAppend + 1

\* How many envelopes the polling sessions in S have emitted
RECURSIVE EmittedCount(_)
EmittedCount(S) ==
    IF S = {} THEN 0
    ELSE LET s == CHOOSE x \in S : TRUE
         IN  Len(emitted[s]) + EmittedCount(S \ {s})

\* C4: every item ever appended, the initial contents included, is still in
\* the queue or was emitted in an envelope, and the queue and the envelopes
\* together hold as many items as were ever appended: each is in exactly one
\* place, none lost, none delivered twice.
C4_NoLossNoDuplicate ==
    /\ \A u \in 1..(nextUid - 1) :
           u \in QueueUids \/ \E s \in PollSessions : u \in EmittedUids(s)
    /\ Len(messages) + EmittedCount(PollSessions) = nextUid - 1

\* C4 witness: two sessions have popped between and after the appends, and
\* the queue is drained.
C4_Witness ==
    /\ PollSessions = Sessions
    /\ messages = <<>>
    /\ nextUid = Len(InitialMessages) + MaxAppend + 1
    /\ \A s \in Sessions : emitted[s] # <<>>
    /\ \E s \in Sessions : emitted[s][1].uid > Len(InitialMessages)

\* C5 (general): each pop takes the most recently appended item still in the
\* queue, and the id of its envelope is above every earlier id of the stream.
C5_PopStep ==
    \A s \in Sessions :
        (pc[s] = "TICK" /\ pc'[s] = "PYIELD") =>
            LET e == emitted'[s][Len(emitted'[s])]
                top == messages[Len(messages)]
            IN  /\ e.uid = top.uid /\ e.data = top.data /\ e.event = top.event
                /\ \A i \in 1..Len(messages) : messages[i].uid <= e.uid
                /\ \A i \in 1..Len(messages') : messages'[i].uid < e.uid
                /\ \A i \in 1..Len(emitted[s]) : emitted[s][i].id < e.id

\* C5 (scenario): with no item appended, the k-th envelope of the only
\* session carries the k-th newest item of the initial queue.
C5_Scenario ==
    \A s \in PollSessions :
        (PollSessions = {s} /\ nextUid = Len(InitialMessages) + 1) =>
            \A k \in 1..Len(emitted[s]) :
                /\ emitted[s][k].data = InitialMessages[Len(InitialMessages) + 1 - k].data
                /\ emitted[s][k].id = k

\* C5: polling delivery is last-in-first-out with strictly increasing ids:
\* from a queue a, b, c one session's ticks emit c, then b, then a.
C5_Lifo == []C5_Scenario /\ [][C5_PopStep]_vars

\* C5 witness: the only session has emitted the whole initial queue, newest
\* first; its last three envelopes carry foobar, bar, foo from the queue
\* foo, bar, foobar.
C5_Witness ==
    \E s \in Sessions :
        /\ PollSessions = {s}
        /\ nextUid = Len(InitialMessages) + 1
        /\ Len(emitted[s]) = 5
        /\ [k \in 1..5 |-> emitted[s][k].data]
             = << "honk hase", "honk", "foobar", "bar", "foo" >>
        /\ emitted[s][3].id < emitted[s][4].id /\ emitted[s][4].id < emitted[s][5].id


\* C11: a subscription adapter whose subscribe fails on an unreachable broker
\* ends in CLOSED_ERROR straight from OPEN with no envelope, and the client
\* sees a failed stream start, not an event stream that was started.
C11_FailedStart ==
    [][ \A s \in Sessions :
          (pc[s] = "OPEN" /\ pc'[s] = "CLOSED_ERROR") =>
              /\ emitted'[s] = <<>>
              /\ response'[s] # "sse" ]_vars

\* The payloads session s's adapter has read from its subscription
PayloadsRead(s) == Len(delivered[s]) - Len(buffer[s])

\* C13: the payloads a subscription adapter has read from the broker exceed
\* the envelopes the HTTP layer has taken by at most one: a payload is read
\* only after the envelope of the one before was taken.
C13_OneInFlight ==
    \A s \in StreamSessions :
        /\ PayloadsRead(s) - consumed[s] \in {0, 1}
        /\ PayloadsRead(s) - consumed[s] = 1 => pc[s] \in {"YIELD", "CLOSED_CANCELLED"}

\* C13 witness: one envelope is with the HTTP layer and the next payload
\* waits at the broker, not read.
C13_Witness ==
    \E s \in StreamSessions :
        /\ pc[s] = "YIELD"
        /\ PayloadsRead(s) = 1 /\ consumed[s] = 0
        /\ buffer[s] # <<>>


\* C12: once its peer has disconnected a polling session emits no envelope
\* and takes nothing from the queue; its tick, the disconnect check first,
\* ends it in CLOSED_CANCELLED, and until that tick it only finishes the
\* yield and the sleep it is in.
C12_DisconnectStopsPolling ==
    [][ \A s \in Sessions :
          (endpoint[s] = "/events" /\ ~connected[s]) =>
              /\ emitted'[s] = emitted[s]
              /\ pc'[s] # pc[s] =>
                   /\ messages' = messages /\ COUNT' = COUNT
                   /\ \/ pc'[s] = "CLOSED_CANCELLED"
                      \/ pc[s] = "PYIELD" /\ pc'[s] = "SLEEP"
                      \/ pc[s] = "SLEEP" /\ pc'[s] = "TICK" ]_vars

\* C12 witness: a disconnected session has ended while items it never took
\* are still in the queue.
C12_Witness ==
    \E s \in PollSessions :
        /\ ~connected[s]
        /\ pc[s] = "CLOSED_CANCELLED"
        /\ emitted[s] # <<>>
        /\ messages # <<>>
        /\ \A t \in Sessions \ {s} : pc[t] = "idle"


\* C15 (state): a polling session that was started is in its loop as long
\* as its peer is connected, whatever the broker does; it ends only in
\* CLOSED_CANCELLED, with the peer gone.
C15_OnlyDisconnectEnds ==
    \A s \in PollSessions :
        /\ (response[s] = "sse" /\ connected[s]) => pc[s] \in PollActive
        /\ pc[s] \in ClosedStates => (pc[s] = "CLOSED_CANCELLED" /\ ~connected[s])

\* C15 (step): a tick on an empty queue emits nothing, leaves the queue and
\* the id counter as they are and goes to the sleep.
C15_EmptyTick ==
    \A s \in Sessions :
        (pc[s] = "TICK" /\ connected[s] /\ messages = <<>> /\ pc'[s] # pc[s]) =>
            /\ pc'[s] = "SLEEP"
            /\ emitted' = emitted /\ messages' = messages /\ COUNT' = COUNT

\* C15: the polling adapter terminates only on peer disconnect: not on an
\* empty queue, not on a broker failure.
C15_PollingEndsOnlyOnDisconnect ==
    []C15_OnlyDisconnectEnds /\ [][C15_EmptyTick]_vars

\* C15 witness: the broker is down and the session has emptied the queue,
\* then delivered an item appended afterwards, and is still in its loop.
C15_Witness ==
    \E s \in PollSessions :
        /\ ~brokerUp /\ connected[s]
        /\ [k \in 1..Len(emitted[s]) |-> emitted[s][k].uid] = <<5, 4, 3, 2, 1, 6>>
        /\ messages = <<>>
        /\ pc[s] = "SLEEP"


\* C16: a polling session takes at most one item per tick: a step adds at
\* most one envelope and removes at most one item, an envelope is added only
\* by the tick of a connected session, and from its yield the session goes
\* to the sleep and from the sleep to the disconnect check of the next tick
\* before it can take another item.
C16_OnePopPerTick ==
    [][ /\ Len(messages') >= Len(messages) - 1
        /\ \A s \in Sessions :
             endpoint[s] = "/events" =>
               /\ Len(emitted'[s]) <= Len(emitted[s]) + 1
               /\ emitted'[s] # emitted[s] =>
                    (pc[s] = "TICK" /\ connected[s] /\ pc'[s] = "PYIELD")
               /\ (pc[s] = "PYIELD" /\ pc'[s] # pc[s]) =>
                    pc'[s] \in {"SLEEP", "CLOSED_CANCELLED"}
               /\ (pc[s] = "SLEEP" /\ pc'[s] # pc[s]) =>
                    pc'[s] \in {"TICK", "CLOSED_CANCELLED"} ]_vars

\* C16 witness: the only session sleeps after its second envelope while the
\* other items, there from the start, are still in the queue.
C16_Witness ==
    \E s \in Sessions :
        /\ PollSessions = {s}
        /\ pc[s] = "SLEEP"
        /\ Len(emitted[s]) = 2 /\ consumed[s] = 2
        /\ messages = SubSeq(InitialMessages, 1, 3)

\* The (event_name, payload) pair appended as occurrence u
ItemOf(u) ==
    IF u <= Len(InitialMessages)
    THEN << InitialMessages[u].event, InitialMessages[u].data >>
    ELSE << "message", "yeah" >>

\* C17: every envelope of the polling adapter carries the event name and the
\* payload of the pair it popped, unchanged, and the retry hint 15000.
C17_EnvelopeCarriesItem ==
    \A s \in PollSessions : \A k \in 1..Len(emitted[s]) :
        /\ << emitted[s][k].event, emitted[s][k].data >> = ItemOf(emitted[s][k].uid)
        /\ emitted[s][k].retry = 15000

\* C17 witness: one session has emitted ("new_message", "honk hase"), the
\* other the appended ("message", "yeah").
C17_Witness ==
    \E s, t \in PollSessions :
        /\ s # t
        /\ \E k \in 1..Len(emitted[s]) :
               emitted[s][k].event = "new_message" /\ emitted[s][k].data = "honk hase"
        /\ \E k \in 1..Len(emitted[t]) :
               emitted[t][k].event = "message" /\ emitted[t][k].data = "yeah"

\* The ids in session s's envelopes
EmittedIds(s) == { emitted[s][k].id : k \in 1..Len(emitted[s]) }

\* C18: COUNT is the number of items popped by all sessions; the ids of all
\* envelopes are exactly 1..COUNT, each once (the id of an envelope is the
\* number of pops up to and including its own), and within one session they
\* increase strictly.
C18_GlobalCounter ==
    /\ COUNT = EmittedCount(PollSessions)
    /\ UNION { EmittedIds(s) : s \in PollSessions } = 1..COUNT
    /\ \A s \in PollSessions : \A i, j \in 1..Len(emitted[s]) :
           i < j => emitted[s][i].id < emitted[s][j].id

\* C18 witness: one session's ids are 1 and 3, the other popped in between
\* and has 2.
C18_Witness ==
    \E s, t \in PollSessions :
        /\ [k \in 1..Len(emitted[s]) |-> emitted[s][k].id] = <<1, 3>>
        /\ [k \in 1..Len(emitted[t]) |-> emitted[t][k].id] = <<2>>
        /\ COUNT = 3


\* No polling session has ended with an error
C19_NoFailedPop == \A s \in PollSessions : pc[s] # "CLOSED_ERROR"

\* The step of a connected session from the top of its loop tests the queue
\* and pops in one step: on a non-empty queue the same step removes the last
\* item and emits it, on an empty queue it goes to the sleep.
C19_CheckAndPop ==
    \A s \in Sessions :
        (endpoint[s] = "/events" /\ pc[s] = "TICK" /\ connected[s] /\ pc'[s] # pc[s]) =>
            IF messages # <<>>
            THEN /\ messages' = AfterPop(messages)
                 /\ Len(emitted'[s]) = Len(emitted[s]) + 1
                 /\ pc'[s] = "PYIELD"
            ELSE /\ messages' = messages
                 /\ emitted'[s] = emitted[s]
                 /\ pc'[s] = "SLEEP"

\* C19: a polling session never pops from an empty queue: the test of the
\* queue and the pop are one step of the session, whatever the other session
\* does, and no session ends with a failed pop.
C19_NoPopOnEmpty == []C19_NoFailedPop /\ [][C19_CheckAndPop]_vars

\* C19 witness: one session has popped the last of the five items and is
\* still at its yield; the other session, which never got an item, has
\* ticked on the queue emptied under it and sleeps.
C19_Witness ==
    \E s, t \in PollSessions :
        /\ pc[s] = "PYIELD" /\ Len(emitted[s]) = 5 /\ consumed[s] = 4
        /\ pc[t] = "SLEEP" /\ emitted[t] = <<>> /\ connected[t]
        /\ messages = <<>> /\ nextUid = 6


\* Session s stays connected and in its polling loop
KeepsTicking(s) ==
    endpoint[s] = "/events" /\ response[s] = "sse" /\ connected[s] /\ pc[s] \in PollActive

\* C20: appends stop (there are at most MaxAppend of them); if some polling
\* session stays connected and keeps ticking from some point on, the queue
\* is eventually empty for good, that is, every item has been popped and
\* emitted to some session.
C20_QueueDrains ==
    (\E s \in Sessions : <>[]KeepsTicking(s)) => <>[](messages = <<>>)

\* C20 witness: both appends have happened, the queue is empty, all seven
\* items were emitted and a connected session is still in its loop.
C20_Witness ==
    /\ messages = <<>>
    /\ nextUid = Len(InitialMessages) + MaxAppend + 1
    /\ EmittedCount(PollSessions) = Len(InitialMessages) + MaxAppend
    /\ \E s \in Sessions : KeepsTicking(s)

=============================================================================
